---- MODULE Spec2Model ----
(***************************************************************************)
(* Model of sarkarisetu/scrapers/scraper.py: SarkariScraper.               *)
(*                                                                         *)
(* Text is a sequence of one-character strings, so that str.strip, the     *)
(* "in" substring test, str.lower, len and the date regular expression     *)
(* are computed character by character.  An Optional[...] value is a tuple *)
(* of length 0 (None) or 1 (the value).  The parsed document is what the   *)
(* selectolax query surface (css, css_first, text, attributes, parent)     *)
(* returns for it: the li nodes with their first a[href], and for a detail *)
(* page the element tree with each table's tr rows and td/th cells.  pc is  *)
(* the position in the running method; "fetch_error" and the two           *)
(* "..._attribute_error" values are the exceptions that leave it.  The url *)
(* and fetched_at fields of the returned dicts are left out: no extraction *)
(* step reads them.                                                        *)
(***************************************************************************)
EXTENDS Integers, Sequences, FiniteSets, TLC

VARIABLES pc, doc, idx, title_text, items, rank, tables, links, result

vars == <<pc, doc, idx, title_text, items, rank, tables, links, result>>

\* ------------------------------------------------------------------ bounds
\* li nodes of a listing document
MaxLi == 2
\* nodes (div, h1..h4, table, a) of a detail document
MaxNodes == 3

\* ------------------------------------------------------------ Optional
None == <<>>
Some(x) == <<x>>

\* ------------------------------------------------------------------ text
Digits == {"0", "1", "2", "3", "4", "5", "6", "7", "8", "9"}

UpperLetters == <<"A", "B", "C", "D", "E", "F", "G", "H", "I", "J", "K", "L", "M",
                  "N", "O", "P", "Q", "R", "S", "T", "U", "V", "W", "X", "Y", "Z">>

LowerLetters == <<"a", "b", "c", "d", "e", "f", "g", "h", "i", "j", "k", "l", "m",
                  "n", "o", "p", "q", "r", "s", "t", "u", "v", "w", "x", "y", "z">>

Range(f) == {f[k] : k \in DOMAIN f}

\* what str.strip() removes and the regular expression's \s matches
IsSpace(c) == c \in {" ", "\t", "\n"}

\* the regular expression's \d
IsDigit(c) == c \in Digits

\* the regular expression's \w
IsWord(c) == c \in Range(UpperLetters) \cup Range(LowerLetters) \cup Digits \cup {"_"}

\* first position >= p of s whose character is not a space (Len(s)+1 if none)
RECURSIVE SkipSpaces(_, _)
SkipSpaces(s, p) ==
    IF p <= Len(s) /\ IsSpace(s[p]) THEN SkipSpaces(s, p + 1) ELSE p

RECURSIVE SkipDigits(_, _)
SkipDigits(s, p) ==
    IF p <= Len(s) /\ IsDigit(s[p]) THEN SkipDigits(s, p + 1) ELSE p

RECURSIVE SkipWord(_, _)
SkipWord(s, p) ==
    IF p <= Len(s) /\ IsWord(s[p]) THEN SkipWord(s, p + 1) ELSE p

\* last position <= p of s whose character is not a space (0 if none)
RECURSIVE LastNonSpace(_, _)
LastNonSpace(s, p) ==
    IF p >= 1 /\ IsSpace(s[p]) THEN LastNonSpace(s, p - 1) ELSE p

\* str.strip()
Strip(s) == SubSeq(s, SkipSpaces(s, 1), LastNonSpace(s, Len(s)))

\* sub in s
Contains(s, sub) ==
    \E k \in 1..(Len(s) - Len(sub) + 1) : SubSeq(s, k, k + Len(sub) - 1) = sub

ToLowerChar(c) ==
    IF \E k \in DOMAIN UpperLetters : UpperLetters[k] = c
    THEN LowerLetters[CHOOSE k \in DOMAIN UpperLetters : UpperLetters[k] = c]
    ELSE c

\* str.lower()
Lower(s) == [k \in DOMAIN s |-> ToLowerChar(s[k])]

\* ------------------------------------------------------- literals of the code
LastDateMarker == <<"L", "a", "s", "t", " ", "D", "a", "t", "e", ":">>
\* "ndash" stands for the single character U+2013 of the two status literals
OutMarker == <<"ndash", " ", "O", "u", "t">>
PendingMarker == <<"ndash", " ", "P", "e", "n", "d", "i", "n", "g">>
OutValue == <<"o", "u", "t">>
PendingValue == <<"p", "e", "n", "d", "i", "n", "g">>
\* variant: the day is \d{1,2} and the year must end the digits
DateMatchAt_Strict(s, k) ==
    LET m  == Len(LastDateMarker)
        p1 == SkipSpaces(s, k + m)
        d  == SkipDigits(s, p1)
        p2 == SkipSpaces(s, d)
        w  == SkipWord(s, p2)
        p3 == SkipSpaces(s, w)
    IN  IF /\ k + m - 1 <= Len(s)
           /\ SubSeq(s, k, k + m - 1) = LastDateMarker
           /\ d > p1
           /\ d - p1 <= 2
           /\ p2 > d
           /\ w > p2
           /\ p3 > w
           /\ SkipDigits(s, p3) = p3 + 4
        THEN Some(SubSeq(s, p1, p3 + 3))
        ELSE None

\* ------------------------------------------------ the date regular expression
\* r'Last Date:\s*(\d+\s+\w+\s+\d{4})' tried at position k of s.  \s, \d and \w
\* followed by \s are pairwise disjoint where they meet, so each greedy
\* quantifier takes its whole run and backtracking finds nothing else.
\* The result is Some(group 1) or None.
DateMatchAt(s, k) ==
    LET m  == Len(LastDateMarker)
        p1 == SkipSpaces(s, k + m)
        d  == SkipDigits(s, p1)
        p2 == SkipSpaces(s, d)
        w  == SkipWord(s, p2)
        p3 == SkipSpaces(s, w)
    IN  IF /\ k + m - 1 <= Len(s)
           /\ SubSeq(s, k, k + m - 1) = LastDateMarker
           /\ d > p1
           /\ p2 > d
           /\ w > p2
           /\ p3 > w
           /\ p3 + 3 <= Len(s)
           /\ \A q \in p3..(p3 + 3) : IsDigit(s[q])
        THEN Some(SubSeq(s, p1, p3 + 3))
        ELSE None

\* re.search: the match at the leftmost position that has one
DateSearch(s) ==
    LET hits == {k \in 1..Len(s) : DateMatchAt(s, k) # None}
    IN  IF hits = {} THEN None
        ELSE DateMatchAt(s, CHOOSE k \in hits : \A j \in hits : k <= j)

\* ------------------------------------------------- listing documents (input)
\* An li node is [anchor, tail]: anchor is li.css_first("a[href]") (None, or
\* Some([text, href]) with href the value attributes.get("href", "") returns:
\* None for an href attribute without a value), tail the li's text after the
\* anchor.  li.text() is the anchor's text followed by the tail.
TextJob == <<" ", "J", "o", "b", " ", "A", " ">>
TextOut == <<"J", "o", "b", " ", "B", " ">> \o OutMarker
TextPending == <<"J", "o", "b", " ", "C", " ">> \o PendingMarker
TextBoth == <<"J", "o", "b", " ", "D", " ">> \o PendingMarker \o <<" ">> \o OutMarker
TextBlank == <<" ">>

HrefX == <<"/", "x">>
HrefPadded == <<" ", "/", "y", " ">>
HrefBlank == <<" ", " ">>

DateGood == <<"1", "5", " ", "J", "u", "n", "e", " ", "2", "0", "2", "6">>
TailGood == <<" ">> \o LastDateMarker \o <<" ">> \o DateGood
TailNoDate == <<" ">> \o LastDateMarker \o <<" ", "T", "B", "A">>
TailLongDay == <<" ">> \o LastDateMarker \o <<" ", "1", "2", "3", " ", "J", "u", "n", "e", " ", "2", "0", "2", "6">>
TailLongYear == <<" ">> \o LastDateMarker \o <<" ">> \o DateGood \o <<"1">>
TailNumeric == LastDateMarker \o <<"1", "5", " ", "0", "6", " ", "2", "0", "2", "6", " ">>
TailSecond == TailNoDate \o <<".", " ">> \o LastDateMarker \o <<" ", "5", " ", "M", "a", "y", " ", "2", "0", "2", "7">>

TitleRaw == <<" ", "L", "a", "t", "e", "s", "t", " ", "J", "o", "b", "s", " ">>

Anchor(text, href) == Some([text |-> text, href |-> href])

LiNodes ==
    \* no a[href] descendant
    {[anchor |-> None, tail |-> TailGood]}
    \* empty, blank or valueless href
    \cup {[anchor |-> Anchor(TextJob, h), tail |-> <<>>] : h \in {Some(<<>>), Some(HrefBlank), None}}
    \* empty or blank anchor text
    \cup {[anchor |-> Anchor(t, Some(HrefX)), tail |-> TailGood] : t \in {<<>>, TextBlank}}
    \cup {[anchor |-> Anchor(TextJob, Some(HrefPadded)), tail |-> <<>>]}
    \cup {[anchor |-> Anchor(t, Some(HrefX)), tail |-> tl] :
            t \in {TextJob, TextOut, TextPending, TextBoth},
            tl \in {<<>>, TailGood, TailNoDate}}
    \cup {[anchor |-> Anchor(TextOut, Some(HrefX)), tail |-> tl] :
            tl \in {TailLongDay, TailLongYear, TailNumeric, TailSecond}}

\* what tree.css_first("h1") and tree.css("li") return for a fetched page
\* with n li nodes
ListDocs(n) == [h1 : {None, Some(TitleRaw)}, lis : [1..n -> LiNodes]]
\* variant: a missing h1 gives the empty title instead of None
TitleOf_Empty(h1) == IF h1 = None THEN Some(<<>>) ELSE Some(Strip(h1[1]))

\* --------------------------------------------------- scrape_aggregator_list
\* title.text().strip() if title else None
TitleOf(h1) == IF h1 = None THEN None ELSE Some(Strip(h1[1]))

\* link.text().strip()
LinkText(li) == Strip(li.anchor[1].text)

\* link.attributes.get("href", "") is None for a valueless href, and
\* None.strip() raises AttributeError
HrefRaises(a) == a.href = None

\* link.attributes.get("href", "").strip()
LinkUrl(li) == Strip(li.anchor[1].href[1])

\* li.text().strip()
FullText(li) == Strip(li.anchor[1].text \o li.tail)
\* variant: only the anchor text is tested
Rejected_TextOnly(link_text, link_url) == link_text = <<>>

\* if not link_text or not link_url: continue
Rejected(link_text, link_url) == link_text = <<>> \/ link_url = <<>>
\* variant: status_text = "Active" set beside metadata_type, outside "if match"
ParseMetadata_AlwaysActive(link_text, full_text) ==
    IF Contains(full_text, LastDateMarker)
    THEN [metadata_type  |-> Some("last_date"),
          metadata_value |-> DateSearch(full_text),
          status_text    |-> Some("Active")]
    ELSE IF Contains(link_text, OutMarker)
    THEN [metadata_type |-> Some("status"), metadata_value |-> Some(OutValue),
          status_text |-> Some("Out")]
    ELSE IF Contains(link_text, PendingMarker)
    THEN [metadata_type |-> Some("status"), metadata_value |-> Some(PendingValue),
          status_text |-> Some("Pending")]
    ELSE [metadata_type |-> None, metadata_value |-> None, status_text |-> None]

\* variant: the Pending test comes before the Out test
ParseMetadata_PendingFirst(link_text, full_text) ==
    IF Contains(full_text, LastDateMarker)
    THEN LET match == DateSearch(full_text)
         IN  [metadata_type  |-> Some("last_date"),
              metadata_value |-> match,
              status_text    |-> IF match # None THEN Some("Active") ELSE None]
    ELSE IF Contains(link_text, PendingMarker)
    THEN [metadata_type |-> Some("status"), metadata_value |-> Some(PendingValue),
          status_text |-> Some("Pending")]
    ELSE IF Contains(link_text, OutMarker)
    THEN [metadata_type |-> Some("status"), metadata_value |-> Some(OutValue),
          status_text |-> Some("Out")]
    ELSE [metadata_type |-> None, metadata_value |-> None, status_text |-> None]

\* the metadata chain: if "Last Date:" in full_text ... elif ... elif ...
ParseMetadata(link_text, full_text) ==
    IF Contains(full_text, LastDateMarker)
    THEN LET match == DateSearch(full_text)
         IN  [metadata_type  |-> Some("last_date"),
              metadata_value |-> match,
              status_text    |-> IF match # None THEN Some("Active") ELSE None]
    ELSE IF Contains(link_text, OutMarker)
    THEN [metadata_type |-> Some("status"), metadata_value |-> Some(OutValue),
          status_text |-> Some("Out")]
    ELSE IF Contains(link_text, PendingMarker)
    THEN [metadata_type |-> Some("status"), metadata_value |-> Some(PendingValue),
          status_text |-> Some("Pending")]
    ELSE [metadata_type |-> None, metadata_value |-> None, status_text |-> None]

\* the dict appended to items
MakeItem(r, li) ==
    LET md == ParseMetadata(LinkText(li), FullText(li))
    IN  [rank           |-> r,
         title          |-> LinkText(li),
         link           |-> LinkUrl(li),
         metadata_type  |-> md.metadata_type,
         metadata_value |-> md.metadata_value,
         status_text    |-> md.status_text]
\* variant: the rank is not advanced after an append
NextRank_Stuck(r) == r

\* rank += 1
NextRank(r) == r + 1

Init ==
    /\ pc = "start"
    /\ doc = <<>>
    /\ idx = 0
    /\ title_text = None
    /\ items = <<>>
    /\ rank = 0
    /\ tables = <<>>
    /\ links = <<>>
    /\ result = <<>>

\* fetch() re-raises what httpx raised; nothing is extracted
FetchFails ==
    /\ pc = "start"
    /\ pc' = "fetch_error"
    /\ UNCHANGED <<doc, idx, title_text, items, rank, tables, links, result>>

\* html = self.fetch(); tree = HTMLParser(html); title; items = []; rank = 1
FetchList ==
    /\ pc = "start"
    /\ \E n \in 0..MaxLi : \E d \in ListDocs(n) : doc' = d
    /\ title_text' = TitleOf(doc'.h1)
    /\ items' = <<>>
    /\ rank' = 1
    /\ idx' = 1
    /\ pc' = "li_loop"
    /\ UNCHANGED <<tables, links, result>>

\* one pass of "for li in tree.css('li')"
ProcessLi ==
    /\ pc = "li_loop"
    /\ idx <= Len(doc.lis)
    /\ LET li == doc.lis[idx]
       IN  \/ /\ li.anchor = None
              /\ idx' = idx + 1
              /\ UNCHANGED <<pc, items, rank>>
           \/ /\ li.anchor # None
              /\ HrefRaises(li.anchor[1])
              /\ pc' = "list_attribute_error"
              /\ UNCHANGED <<idx, items, rank>>
           \/ /\ li.anchor # None
              /\ ~HrefRaises(li.anchor[1])
              /\ Rejected(LinkText(li), LinkUrl(li))
              /\ idx' = idx + 1
              /\ UNCHANGED <<pc, items, rank>>
           \/ /\ li.anchor # None
              /\ ~HrefRaises(li.anchor[1])
              /\ ~Rejected(LinkText(li), LinkUrl(li))
              /\ items' = Append(items, MakeItem(rank, li))
              /\ rank' = NextRank(rank)
              /\ idx' = idx + 1
              /\ UNCHANGED pc
    /\ UNCHANGED <<doc, title_text, tables, links, result>>

\* the returned dict (url and fetched_at, which no extraction step reads, left out)
ReturnList ==
    /\ pc = "li_loop"
    /\ idx > Len(doc.lis)
    /\ result' = [title |-> title_text, items_count |-> Len(items), items |-> items]
    /\ pc' = "list_done"
    /\ UNCHANGED <<doc, idx, title_text, items, rank, tables, links>>

NextList == FetchFails \/ FetchList \/ ProcessLi \/ ReturnList

\* --------------------------------------------------- detail documents (input)
\* A detail document is its element nodes in document order (pre-order), each
\* [kind, parent, text, rows, href]: parent is the position of the parent
\* node, 0 for the root element; text is the node's text (headings, anchors);
\* rows are a table's tr nodes, each the texts of its td/th cells; href is
\* what attributes.get("href", "") returns for an a[href] node.
\* Kinds: "div", "h1", "h2", "h3", "h4", "table", "a".
HeadingKinds == {"h2", "h3", "h4"}

TextDates == <<" ", "D", "a", "t", "e", "s", " ">>
TextFee == <<"F", "e", "e">>
TextApply == <<"A", "p", "p", "l", "y", " ", "O", "n", "l", "i", "n", "e">>
TextResultUpper == <<" ", "R", "E", "S", "U", "L", "T", " ">>
TextHome == <<"H", "o", "m", "e", " ", "p", "a", "g", "e">>
TextOk == <<" ", "O", "K", " ">>

CellStart == <<" ", "S", "t", "a", "r", "t">>
CellDay == <<"1", " ", "M", "a", "y">>
CellFee == <<"1", "0", "0", " ">>

NodeShape(kind, text, rows, href) ==
    [kind |-> kind, text |-> text, rows |-> rows, href |-> href]

NodeShapes ==
    {NodeShape("div", <<>>, <<>>, None), NodeShape("h1", TitleRaw, <<>>, None)}
    \cup {NodeShape("h2", TextDates, <<>>, None), NodeShape("h3", TextFee, <<>>, None),
          NodeShape("h4", TextBlank, <<>>, None)}
    \cup {NodeShape("table", <<>>, r, None) :
            r \in { << <<>> >>, << <<CellStart, CellDay>> >>, << <<>>, <<CellFee>> >> }}
    \cup {NodeShape("a", TextApply, <<>>, None)}
    \cup {NodeShape("a", t[1], <<>>, Some(t[2])) :
            t \in {<<TextApply, HrefX>>, <<TextApply, HrefBlank>>,
                   <<TextResultUpper, HrefPadded>>, <<TextHome, HrefX>>, <<TextOk, HrefX>>}}

WithParent(shape, parent) ==
    [kind |-> shape.kind, parent |-> parent, text |-> shape.text,
     rows |-> shape.rows, href |-> shape.href]

\* the proper ancestors of position j under the parent vector par (0 is the
\* root element)
RECURSIVE Up(_, _)
Up(par, j) == IF j = 0 THEN {} ELSE {par[j]} \cup Up(par, par[j])

\* node.parent, repeatedly
Ancestors(nodes, j) == Up([k \in DOMAIN nodes |-> nodes[k].parent], j)

\* the parent vectors of n nodes in document order: the next node hangs
\* under the root, under the node before it, or under one of that node's
\* ancestors
TreeShapes(n) ==
    {par \in [1..n -> 0..(n - 1)] :
        \A k \in 1..n : par[k] = 0 \/ (k > 1 /\ par[k] \in {k - 1} \cup Up(par, k - 1))}

\* the documents of n nodes: only a div has children
DocsOfLen(n) ==
    {[k \in 1..n |-> WithParent(t[2][k], t[1][k])] :
        t \in {u \in TreeShapes(n) \X [1..n -> NodeShapes] :
                 \A k \in 1..n : u[1][k] # 0 => u[2][u[1][k]].kind = "div"}}

\* ------------------------------------------------ scrape_recruitment_detail
SetMin(S) == CHOOSE x \in S : \A y \in S : x <= y

\* the positions, in document order, of the nodes whose kind is in kinds
RECURSIVE Css(_, _, _)
Css(nodes, kinds, from) ==
    IF from > Len(nodes) THEN <<>>
    ELSE (IF nodes[from].kind \in kinds THEN <<from>> ELSE <<>>)
         \o Css(nodes, kinds, from + 1)

\* tree.css_first("h1"), then title.text().strip() if title else None
DetailTitle(nodes) ==
    LET h == Css(nodes, {"h1"}, 1)
    IN  IF h = <<>> THEN None ELSE Some(Strip(nodes[h[1]].text))

\* prev.css_first("h2, h3, h4"): the first heading in document order under prev
CssFirstHeading(nodes, prev) ==
    LET hs == {j \in 1..Len(nodes) :
                 nodes[j].kind \in HeadingKinds /\ prev \in Ancestors(nodes, j)}
    IN  IF hs = {} THEN None ELSE Some(SetMin(hs))

\* the while loop from prev upwards; root.parent ends it
RECURSIVE WalkUp(_, _)
WalkUp(nodes, prev) ==
    LET h == CssFirstHeading(nodes, prev)
    IN  IF h # None THEN Some(Strip(nodes[h[1]].text))
        ELSE IF prev = 0 THEN None
        ELSE WalkUp(nodes, nodes[prev].parent)

\* heading = None; prev = table.parent; while prev: ...
FindHeading(nodes, t) == WalkUp(nodes, nodes[t].parent)

\* cells of one tr: td.text().strip() for each td/th
RowCells(tr) == [k \in DOMAIN tr |-> Strip(tr[k])]

\* rows of a table: the trs that have cells
RECURSIVE ExtractRows(_)
ExtractRows(trs) ==
    IF trs = <<>> THEN <<>>
    ELSE (IF RowCells(Head(trs)) # <<>> THEN <<RowCells(Head(trs))>> ELSE <<>>)
         \o ExtractRows(Tail(trs))
\* variant: only the heading is tested
Included_HeadingOnly(rows, heading) == heading # None /\ heading[1] # <<>>

\* if rows and heading (None and "" are both falsy)
Included(rows, heading) == rows # <<>> /\ heading # None /\ heading[1] # <<>>
\* variant: an existing key keeps its first value
DictSet_KeepFirst(d, key, value) ==
    IF \E k \in DOMAIN d : d[k].key = key
    THEN d
    ELSE Append(d, [key |-> key, value |-> value])

\* a dict is its [key, value] entries in insertion order; d[key] = value
DictSet(d, key, value) ==
    IF \E k \in DOMAIN d : d[k].key = key
    THEN [k \in DOMAIN d |-> IF d[k].key = key THEN [key |-> key, value |-> value] ELSE d[k]]
    ELSE Append(d, [key |-> key, value |-> value])
\* variant: the url is not tested
LinkKept_AnyUrl(text, url) == text # <<>> /\ Len(text) > 3

\* if text and url and len(text) > 3
LinkKept(text, url) == text # <<>> /\ url # <<>> /\ Len(text) > 3

Keywords ==
    {<<"a", "p", "p", "l", "y">>, <<"o", "f", "f", "i", "c", "i", "a", "l">>,
     <<"n", "o", "t", "i", "f", "i", "c", "a", "t", "i", "o", "n">>,
     <<"a", "d", "m", "i", "t">>, <<"r", "e", "s", "u", "l", "t">>}

\* any(k in l["text"].lower() for k in [...])
HasKeyword(l) == \E k \in Keywords : Contains(Lower(l.text), k)

\* html = self.fetch(); tree = HTMLParser(html); title; tables = {}
FetchDetail ==
    /\ pc = "start"
    /\ \E n \in 0..MaxNodes : \E d \in DocsOfLen(n) : doc' = d
    /\ title_text' = DetailTitle(doc')
    /\ tables' = <<>>
    /\ idx' = 1
    /\ pc' = "table_loop"
    /\ UNCHANGED <<items, rank, links, result>>

\* one pass of "for table in tree.css('table')"
ProcessTable ==
    /\ pc = "table_loop"
    /\ idx <= Len(Css(doc, {"table"}, 1))
    /\ LET t       == Css(doc, {"table"}, 1)[idx]
           heading == FindHeading(doc, t)
           rows    == ExtractRows(doc[t].rows)
       IN  \/ /\ Included(rows, heading)
              /\ tables' = DictSet(tables, heading[1], rows)
           \/ /\ ~Included(rows, heading)
              /\ UNCHANGED tables
    /\ idx' = idx + 1
    /\ UNCHANGED <<pc, doc, title_text, items, rank, links, result>>

\* the table loop is over: links = []
StartLinks ==
    /\ pc = "table_loop"
    /\ idx > Len(Css(doc, {"table"}, 1))
    /\ links' = <<>>
    /\ idx' = 1
    /\ pc' = "link_loop"
    /\ UNCHANGED <<doc, title_text, items, rank, tables, result>>

\* one pass of "for a in tree.css('a[href]')"
ProcessLink ==
    /\ pc = "link_loop"
    /\ idx <= Len(Css(doc, {"a"}, 1))
    /\ LET a == doc[Css(doc, {"a"}, 1)[idx]]
       IN  \/ /\ HrefRaises(a)
              /\ pc' = "detail_attribute_error"
              /\ UNCHANGED <<idx, links>>
           \/ /\ ~HrefRaises(a)
              /\ LinkKept(Strip(a.text), Strip(a.href[1]))
              /\ links' = Append(links, [text |-> Strip(a.text), url |-> Strip(a.href[1])])
              /\ idx' = idx + 1
              /\ UNCHANGED pc
           \/ /\ ~HrefRaises(a)
              /\ ~LinkKept(Strip(a.text), Strip(a.href[1]))
              /\ idx' = idx + 1
              /\ UNCHANGED <<pc, links>>
    /\ UNCHANGED <<doc, title_text, items, rank, tables, result>>

\* the returned dict (url and fetched_at, which no extraction step reads, left out)
ReturnDetail ==
    /\ pc = "link_loop"
    /\ idx > Len(Css(doc, {"a"}, 1))
    /\ result' = [title           |-> title_text,
                  tables          |-> tables,
                  links_count     |-> Len(links),
                  important_links |-> SelectSeq(links, HasKeyword)]
    /\ pc' = "detail_done"
    /\ UNCHANGED <<doc, idx, title_text, items, rank, tables, links>>

NextDetail == FetchDetail \/ ProcessTable \/ StartLinks \/ ProcessLink \/ ReturnDetail

Next == NextList \/ NextDetail

Spec == Init /\ [][Next]_vars

\* ===================================================================== claims
\* What the claims speak of, stated from the document alone.

\* an li whose first a[href] has non-empty trimmed text and a non-empty
\* trimmed href
Qualifies(li) ==
    /\ li.anchor # None
    /\ li.anchor[1].href # None
    /\ Strip(li.anchor[1].text) # <<>>
    /\ Strip(li.anchor[1].href[1]) # <<>>

\* the qualifying li nodes, in document order
QualifyingLis == SelectSeq(doc.lis, Qualifies)

\* the status category of an item: status_text, or Unknown when it is None
Category(item) == IF item.status_text = None THEN "Unknown" ELSE item.status_text[1]

AllSpace(s, a, b) == \A q \in a..b : IsSpace(s[q])
AllDigit(s, a, b) == \A q \in a..b : IsDigit(s[q])
AllWord(s, a, b) == \A q \in a..b : IsWord(s[q])

\* the date tokens that follow the marker at position k of s: optional
\* spaces, a day of digits, spaces, a month of word characters, spaces and
\* a year of four digits, the token running from the day to the year.
\* strict: the day has at most two digits and no digit follows the year.
TokensAt(s, k, strict) ==
    LET n == Len(s)
        m == Len(LastDateMarker)
        DayStarts == {a \in (k + m)..n : AllSpace(s, k + m, a - 1) /\ IsDigit(s[a])}
        DayEnds(a) == {b \in a..n : AllDigit(s, a, b) /\ (strict => b - a + 1 <= 2)}
        MonthStarts(b) == {c \in (b + 2)..n : AllSpace(s, b + 1, c - 1)}
        MonthEnds(c) == {d \in c..n : AllWord(s, c, d)}
        YearStarts(d) ==
            {y \in (d + 2)..(n - 3) :
                /\ AllSpace(s, d + 1, y - 1)
                /\ AllDigit(s, y, y + 3)
                /\ (strict => (y + 4 > n \/ ~IsDigit(s[y + 4])))}
    IN  IF k + m - 1 <= n /\ SubSeq(s, k, k + m - 1) = LastDateMarker
        THEN UNION {UNION {UNION {UNION {{SubSeq(s, a, y + 3) : y \in YearStarts(d)} :
                 d \in MonthEnds(c)} : c \in MonthStarts(b)} : b \in DayEnds(a)} :
                 a \in DayStarts}
        ELSE {}

\* the positions of s whose marker is followed by a date token
TokenPlaces(s, strict) == {k \in 1..Len(s) : TokensAt(s, k, strict) # {}}

\* the full text of a qualifying li
FullTextOf(li) == Strip(li.anchor[1].text \o li.tail)

\* ----------------------------------------------------------------------- C1
\* C1: the ranks of the items are 1, 2, 3, ... in sequence order, while the
\* loop runs and in the returned record; the next rank is one more than the
\* number of accepted items, whatever number of li nodes was skipped.
Thm_C1_RanksDense ==
    /\ pc \in {"li_loop", "list_done"} =>
          /\ \A k \in 1..Len(items) : items[k].rank = k
          /\ rank = Len(items) + 1
    /\ pc = "list_done" => \A k \in 1..Len(result.items) : result.items[k].rank = k

\* a skipped li came before an accepted one, which has rank 1
Wit_C1_SkipThenAccept ==
    /\ pc = "list_done"
    /\ Len(doc.lis) >= 2
    /\ ~Qualifies(doc.lis[1])
    /\ Qualifies(doc.lis[2])
    /\ Len(result.items) >= 1
    /\ result.items[1].rank = 1

\* ----------------------------------------------------------------------- C3
\* C3: the returned items are, in document order, exactly the qualifying li
\* nodes (title the trimmed anchor text, link the trimmed href), and
\* items_count is their number.
Thm_C3_ItemsAreQualifyingLis ==
    pc = "list_done" =>
        /\ Len(result.items) = Len(QualifyingLis)
        /\ result.items_count = Len(result.items)
        /\ \A k \in 1..Len(result.items) :
              /\ result.items[k].title = Strip(QualifyingLis[k].anchor[1].text)
              /\ result.items[k].link = Strip(QualifyingLis[k].anchor[1].href[1])

\* one li with an empty href was dropped and one qualifying li was kept
Wit_C3_EmptyHrefDropped ==
    /\ pc = "list_done"
    /\ \E j \in 1..Len(doc.lis) :
          /\ doc.lis[j].anchor # None
          /\ doc.lis[j].anchor[1].href = Some(<<>>)
    /\ Len(result.items) = 1
    /\ Len(doc.lis) = 2

\* ----------------------------------------------------------------------- C2
\* C2 as stated: an item whose full text contains "Last Date:" is Active,
\* whether or not a date token follows.
Orig_C2_MarkerMeansActive ==
    pc = "list_done" =>
        \A k \in 1..Len(result.items) :
            Contains(FullTextOf(QualifyingLis[k]), LastDateMarker)
                => Category(result.items[k]) = "Active"

\* C2 amended: an item whose full text contains "Last Date:" has
\* metadata_type last_date; it is Active exactly when a date token follows a
\* marker, and then has a detail; when none does, its category is Unknown
\* (status_text None) and its detail is absent.
Thm_C2_ActiveOnlyWithDate ==
    pc = "list_done" =>
        \A k \in 1..Len(result.items) :
            LET full == FullTextOf(QualifyingLis[k])
                it   == result.items[k]
            IN  Contains(full, LastDateMarker) =>
                    /\ it.metadata_type = Some("last_date")
                    /\ TokenPlaces(full, FALSE) # {} =>
                          Category(it) = "Active" /\ it.metadata_value # None
                    /\ TokenPlaces(full, FALSE) = {} =>
                          Category(it) = "Unknown" /\ it.metadata_value = None

\* an item with "Last Date:" and no date token was returned as Unknown
Wit_C2_MarkerWithoutDate ==
    /\ pc = "list_done"
    /\ \E k \in 1..Len(result.items) :
          /\ Contains(FullTextOf(QualifyingLis[k]), LastDateMarker)
          /\ TokenPlaces(FullTextOf(QualifyingLis[k]), FALSE) = {}
          /\ Category(result.items[k]) = "Unknown"

\* ----------------------------------------------------------------------- C4
\* the first matching rule of the claim's list, for a qualifying li
FirstRule(li) ==
    IF Contains(FullTextOf(li), LastDateMarker) THEN "Active"
    ELSE IF Contains(Strip(li.anchor[1].text), OutMarker) THEN "Out"
    ELSE IF Contains(Strip(li.anchor[1].text), PendingMarker) THEN "Pending"
    ELSE "Unknown"

\* C4 as stated: the category of every item is that of the first matching
\* rule of [Last Date: -> Active, Out, Pending, otherwise Unknown].
Orig_C4_FirstRuleWins ==
    pc = "list_done" =>
        \A k \in 1..Len(result.items) :
            Category(result.items[k]) = FirstRule(QualifyingLis[k])

\* C4 amended: the first matching rule decides, the first rule giving Active
\* when a date token follows a marker and Unknown when none does; an item
\* with Out and Pending in its link text is Out, an item with "Last Date:" is
\* never Out or Pending, and an Unknown item has no detail.
Thm_C4_FirstRuleWinsDateNeeded ==
    pc = "list_done" =>
        \A k \in 1..Len(result.items) :
            LET li == QualifyingLis[k]
                it == result.items[k]
                expected ==
                    IF FirstRule(li) = "Active" /\ TokenPlaces(FullTextOf(li), FALSE) = {}
                    THEN "Unknown" ELSE FirstRule(li)
            IN  /\ Category(it) = expected
                /\ Category(it) = "Unknown" => it.metadata_value = None

\* an item with both status markers and no "Last Date:" was returned as Out
Wit_C4_BothMarkersIsOut ==
    /\ pc = "list_done"
    /\ \E k \in 1..Len(result.items) :
          /\ Contains(result.items[k].title, OutMarker)
          /\ Contains(result.items[k].title, PendingMarker)
          /\ ~Contains(FullTextOf(QualifyingLis[k]), LastDateMarker)
          /\ Category(result.items[k]) = "Out"

\* ---------------------------------------------------------------------- C10
\* C10 as stated: a detail of a last_date item is a token of a one- or
\* two-digit day, a word and a four-digit year that follows the marker; a
\* longer day or year gives no detail.
Orig_C10_DetailIsStrictToken ==
    pc = "list_done" =>
        \A k \in 1..Len(result.items) :
            LET full == FullTextOf(QualifyingLis[k])
                it   == result.items[k]
            IN  it.metadata_type = Some("last_date") =>
                    IF TokenPlaces(full, TRUE) = {} THEN it.metadata_value = None
                    ELSE /\ it.metadata_value # None
                         /\ \E p \in TokenPlaces(full, TRUE) :
                               it.metadata_value[1] \in TokensAt(full, p, TRUE)

\* C10 amended: the detail of a last_date item is present exactly when some
\* "Last Date:" is followed by optional spaces, one or more digits, spaces,
\* one or more word characters, spaces and four digits, and it is that text
\* at the leftmost such marker, from the first digit of the day to the fourth
\* digit of the year: a day of three or more digits is kept whole and a
\* longer year is cut to its first four digits.
Thm_C10_DetailIsRegexGroup ==
    pc = "list_done" =>
        \A k \in 1..Len(result.items) :
            LET full   == FullTextOf(QualifyingLis[k])
                it     == result.items[k]
                places == TokenPlaces(full, FALSE)
            IN  it.metadata_type = Some("last_date") =>
                    IF places = {} THEN it.metadata_value = None
                    ELSE /\ it.metadata_value # None
                         /\ TokensAt(full, SetMin(places), FALSE) = {it.metadata_value[1]}

\* a three-digit day was returned whole as the detail
Wit_C10_LongDayKept ==
    /\ pc = "list_done"
    /\ \E k \in 1..Len(result.items) :
          /\ result.items[k].metadata_value # None
          /\ Len(result.items[k].metadata_value[1]) > Len(DateGood)
          /\ TokenPlaces(FullTextOf(QualifyingLis[k]), TRUE) = {}

\* ------------------------------------------------------------ detail claims
IsAnchorNode(nd) == nd.kind = "a"

\* the a[href] nodes, in document order
AnchorNodes == SelectSeq(doc, IsAnchorNode)

TableNodes == {t \in 1..Len(doc) : doc[t].kind = "table"}

HeadingNodes == {j \in 1..Len(doc) : doc[j].kind \in HeadingKinds}

NonEmptyRow(tr) == tr # <<>>

\* a table with at least one row that has at least one cell
HasRows(t) == \E r \in 1..Len(doc[t].rows) : NonEmptyRow(doc[t].rows[r])

\* the rows that have cells, each cell trimmed
RowsOf(t) ==
    LET trs == SelectSeq(doc[t].rows, NonEmptyRow)
    IN  [r \in DOMAIN trs |-> [c \in DOMAIN trs[r] |-> Strip(trs[r][c])]]

\* the ancestors of table t that have a heading below them
Holders(t) ==
    {a \in Ancestors(doc, t) : \E j \in HeadingNodes : a \in Ancestors(doc, j)}

\* the nearest of them: every other one is an ancestor of it
NearestHolder(t) ==
    CHOOSE a \in Holders(t) : \A b \in Holders(t) : b = a \/ b \in Ancestors(doc, a)

\* the text of the first heading below the nearest such ancestor, if any
AncestorHeading(t) ==
    IF Holders(t) = {} THEN None
    ELSE Some(Strip(doc[SetMin({j \in HeadingNodes :
                                   NearestHolder(t) \in Ancestors(doc, j)})].text))

\* a table the extraction stores: rows, and a heading with non-empty text
Includable(t) ==
    HasRows(t) /\ AncestorHeading(t) # None /\ AncestorHeading(t)[1] # <<>>

Keys(d) == {d[k].key : k \in DOMAIN d}

TablesBuilt == pc \in {"link_loop", "detail_done", "detail_attribute_error"}

\* the anchor text has more than 3 characters and holds a keyword, in any case
Important(a) ==
    /\ Len(Strip(a.text)) > 3
    /\ \E kw \in Keywords : Contains(Lower(Strip(a.text)), kw)

ImportantAndLinked(a) == Important(a) /\ Strip(a.href[1]) # <<>>

AsLinks(as) == [k \in DOMAIN as |-> [text |-> Strip(as[k].text), url |-> Strip(as[k].href[1])]]

\* ----------------------------------------------------------------------- C5
\* C5 as stated: important_links is the document-order subsequence of the
\* a[href] nodes whose trimmed text is longer than 3 characters and holds a
\* keyword, nothing else deciding.
Orig_C5_ImportantByTextAlone ==
    pc = "detail_done" =>
        result.important_links = AsLinks(SelectSeq(AnchorNodes, Important))

\* C5 amended: important_links is the document-order subsequence of the
\* a[href] nodes whose trimmed text is longer than 3 characters and holds a
\* keyword and whose trimmed href is not empty.
Thm_C5_ImportantNeedsHref ==
    pc = "detail_done" =>
        result.important_links = AsLinks(SelectSeq(AnchorNodes, ImportantAndLinked))

\* an "Apply Online" link with a blank href was left out, another link kept
Wit_C5_BlankHrefLeftOut ==
    /\ pc = "detail_done"
    /\ \E k \in 1..Len(AnchorNodes) :
          Important(AnchorNodes[k]) /\ Strip(AnchorNodes[k].href[1]) = <<>>
    /\ Len(result.important_links) >= 1

\* ----------------------------------------------------------------------- C6
\* C6 as stated: the keys of tables are the heading texts of the tables that
\* have a row with a cell and whose nearest ancestor with a heading below it
\* yields a heading; tables without rows or without such an ancestor add
\* nothing.
Orig_C6_KeysAreResolvedHeadings ==
    TablesBuilt =>
        Keys(tables) = {AncestorHeading(t)[1] :
                          t \in {u \in TableNodes : HasRows(u) /\ AncestorHeading(u) # None}}

\* C6 amended: the same, for headings whose trimmed text is not empty (a
\* table under a heading with empty text is dropped); every value of tables
\* is the rows of a table with rows and that heading, so a table without
\* rows adds and changes nothing.
Thm_C6_KeysAreNonEmptyHeadings ==
    /\ TablesBuilt =>
          /\ Keys(tables) = {AncestorHeading(t)[1] : t \in {u \in TableNodes : Includable(u)}}
          /\ \A k \in DOMAIN tables :
                \E t \in TableNodes :
                    /\ Includable(t)
                    /\ AncestorHeading(t)[1] = tables[k].key
                    /\ RowsOf(t) = tables[k].value
    /\ pc = "detail_done" => result.tables = tables

\* a table with rows is stored and a table without rows under the same
\* heading is not
Wit_C6_RowlessTableDropped ==
    /\ pc = "detail_done"
    /\ \E t \in TableNodes : ~HasRows(t) /\ AncestorHeading(t) # None
    /\ \E t \in TableNodes : Includable(t)
    /\ Len(result.tables) = 1

\* ----------------------------------------------------------------------- C7
\* the headings before table t in document order
Preceding(t) == {j \in HeadingNodes : j < t}

SetMax(S) == CHOOSE x \in S : \A y \in S : y <= x

PrecedingHeading(t) == Strip(doc[SetMax(Preceding(t))].text)

\* C7: every stored table is stored under the text of the closest heading
\* before it in document order: each key is the closest preceding heading of
\* a table with rows, and each table with rows and a preceding heading of
\* non-empty text has that heading as a key.
Orig_C7_KeyIsPrecedingHeading ==
    pc = "detail_done" =>
        /\ \A k \in DOMAIN result.tables :
              \E t \in TableNodes :
                  /\ HasRows(t)
                  /\ Preceding(t) # {}
                  /\ PrecedingHeading(t) = result.tables[k].key
        /\ \A t \in TableNodes :
              (HasRows(t) /\ Preceding(t) # {} /\ PrecedingHeading(t) # <<>>)
                  => PrecedingHeading(t) \in Keys(result.tables)

\* ----------------------------------------------------------------------- C8
\* C8: the keys of tables are pairwise different, and the value under a key
\* is the rows of the last table in document order among the stored tables
\* (rows, heading of non-empty text) with that heading; earlier rows are not
\* kept or merged, and a later table without rows changes nothing.
Thm_C8_LastTableWins ==
    TablesBuilt =>
        /\ \A j, k \in DOMAIN tables : tables[j].key = tables[k].key => j = k
        /\ \A k \in DOMAIN tables :
              LET same == {t \in TableNodes :
                             Includable(t) /\ AncestorHeading(t)[1] = tables[k].key}
              IN  same # {} /\ tables[k].value = RowsOf(SetMax(same))
        /\ pc = "detail_done" => result.tables = tables

\* two tables with different rows under one heading, the second one stored
Wit_C8_SecondTableStored ==
    /\ pc = "detail_done"
    /\ \E t1, t2 \in TableNodes :
          /\ t1 < t2
          /\ Includable(t1)
          /\ Includable(t2)
          /\ AncestorHeading(t1) = AncestorHeading(t2)
          /\ RowsOf(t1) # RowsOf(t2)
          /\ result.tables = <<[key |-> AncestorHeading(t2)[1], value |-> RowsOf(t2)]>>

\* ----------------------------------------------------------------------- C9
\* C9: a page without h1, li, table and a[href] nodes gives a listing record
\* with title None and no items and a detail record with title None, no
\* tables and no important links; AttributeError needs an a[href] node, so
\* such content never raises; and an item without a date or status, or a
\* table without rows or heading text, leaves the other items and tables of
\* the page in the record.
Thm_C9_DegradeNotFail ==
    /\ pc = "list_attribute_error" => \E j \in 1..Len(doc.lis) : doc.lis[j].anchor # None
    /\ pc = "detail_attribute_error" => \E j \in 1..Len(doc) : doc[j].kind = "a"
    /\ (pc = "list_done" /\ doc.h1 = None /\ doc.lis = <<>>) =>
          result = [title |-> None, items_count |-> 0, items |-> <<>>]
    /\ (pc = "detail_done" /\ \A j \in 1..Len(doc) : doc[j].kind \notin {"h1", "table", "a"}) =>
          result = [title |-> None, tables |-> <<>>, links_count |-> 0,
                    important_links |-> <<>>]
    /\ pc = "list_done" =>
          \A j \in 1..Len(doc.lis) :
              Qualifies(doc.lis[j]) =>
                  \E k \in 1..Len(result.items) :
                      result.items[k].title = Strip(doc.lis[j].anchor[1].text)
    /\ pc = "detail_done" =>
          \A t \in TableNodes : Includable(t) => AncestorHeading(t)[1] \in Keys(result.tables)

\* the empty listing page was extracted to the empty record
Wit_C9_EmptyListing ==
    /\ pc = "list_done"
    /\ doc = [h1 |-> None, lis |-> <<>>]
    /\ result.title = None
    /\ result.items = <<>>

====
